---- MODULE Spec2Model ----
(***************************************************************************)
(* kaptiv: the scheduled-email job queue (scheduled_emails), the worker    *)
(* tick api/run_scheduled_jobs.js, and the sequence starter                *)
(* api/start_sequence.js, over one logical store.                          *)
(*                                                                         *)
(* Time is counted in minutes.  Invocations interleave at the store: a     *)
(* handler's reads and writes of rows other invocations can touch are      *)
(* steps of their own; a call to the mail provider, and a write to the job *)
(* row the invocation holds claimed, is taken together with the step       *)
(* before it.  A store call whose result the code checks ({ error }) may   *)
(* take its error branch; a store write whose result the code drops may be *)
(* applied or lost without the handler noticing.  The faults of a         *)
(* behaviour are counted: sends that fail, and store calls that fail.      *)
(*                                                                         *)
(* The OAuth helper (index.js: /oauth/start, /oauth2/callback) shares the  *)
(* clock and the credentials with the queue and is explored on its own     *)
(* (OAuthSpec); so is the worker's secret check (SecretSpec).              *)
(*                                                                         *)
(* The queue is explored over a sequence_steps table that stays as it is   *)
(* (Steps); the handlers that write steps (api/sequence_step_upsert.js,    *)
(* /api/steps) are explored on their own, starting from that table         *)
(* (StepsSpec).                                                            *)
(***************************************************************************)
EXTENDS Integers, Sequences, FiniteSets, TLC

(* ------------------------------ bounds -------------------------------- *)
MaxJobs == 2
MaxRuns == 2
MaxRecipients == 2
NumWorkers == 2
NumThreads == 2
MaxSendFailures == 5
MaxStoreFaults == 1
NumSecrets == 2
MaxStates == 2
NumCallbacks == 2
MaxTable == 3
MaxSteps == 5
MaxOrder == 2
NumUpserts == 2
MaxBulk == 1

(* ------------------------- program constants -------------------------- *)
NULL == 0
MAX_ATTEMPTS == 5
BATCH_SIZE == 2
MinutesPerDay == 24 * 60
STATE_TTL == 15
DEFAULT_TIMEZONE == "Asia/Singapore"
(* a first_send_time ahead of the clock                                    *)
FirstSendTime == 3

Workers == 1..NumWorkers
ThreadIds == 1..NumThreads
Owners == {"T1"}
Secrets == 1..NumSecrets
StateIds == 1..MaxStates
Callbacks == 1..NumCallbacks
Upserts == 1..NumUpserts


(* sequence_steps table: sequence 1 has orders 1 and 3, sequence 2 has 2   *)
(* and 4; one follow-up step waits a day, the other no time at all         *)
Steps ==
  << [sequence_id |-> 1, step_order |-> 1, delay_days |-> 0],
     [sequence_id |-> 2, step_order |-> 2, delay_days |-> 1],
     [sequence_id |-> 1, step_order |-> 3, delay_days |-> 1],
     [sequence_id |-> 2, step_order |-> 4, delay_days |-> 0] >>
SequenceIds == {1, 2}

VARIABLES
  now,          \* the clock, in minutes
  credentials,  \* owner_id -> "token" | "null" (no refresh token)
  jobs,         \* scheduled_emails, by id (insertion order)
  runs,         \* sequence_runs, by id
  pc,           \* worker invocation -> position in handler
  batch,        \* worker invocation -> claimedJobs still to process
  wl,           \* worker invocation -> locals of the job being processed
  st,           \* the start_sequence invocation
  sendFailures, \* sends (or credential reads) that have failed so far
  storeFaults,  \* store calls that have failed so far
  sends,        \* the mail provider: per job, sends it accepted and tries that threw
  events,       \* email_events, in insertion order
  replied,      \* runs for which the reply detector has reported a reply
  workerSecret, \* WORKER_SECRET of the deployment, NULL when not set
  req,          \* worker invocation -> the secret it presented, and a 401 answer
  stateStore,   \* OAuth states by nonce, in the order they were issued
  cb,           \* /oauth2/callback invocations
  exchanges,    \* the identity provider: per state, token exchanges asked for
  sequence_steps, \* the sequence_steps table, by id (insertion order)
  up,           \* sequence_step_upsert invocations
  summary       \* worker invocation -> the summary it answers with

oauthVars == <<stateStore, cb, exchanges>>
stepVars == <<sequence_steps, up>>

vars == <<now, credentials, jobs, runs, pc, batch, wl, st, sendFailures, storeFaults,
          sends, events, replied, workerSecret, req, stateStore, cb, exchanges,
          sequence_steps, up, summary>>

(* ------------------------------ helpers ------------------------------- *)
RECURSIVE Pow2(_)
Pow2(n) == IF n = 0 THEN 1 ELSE 2 * Pow2(n - 1)

JobIds == 1..Len(jobs)
RunIds == 1..Len(runs)

NoLocals == [threadId |-> NULL, currentStepOrder |-> NULL, sequenceId |-> NULL,
             recipientEmail |-> "", sinceMs |-> NULL, runThreadId |-> NULL]
StIdle == [pc |-> "idle", sequence_id |-> NULL, owner_id |-> "", first_send_time |-> NULL,
           tz |-> "",
           finalRecipients |-> <<>>, recipients |-> <<>>, scheduledBase |-> NULL,
           runId |-> NULL, createdRuns |-> <<>>, createdJobs |-> <<>>, response |-> NULL]
NoRequest == [secret |-> NULL, response |-> NULL]
NoSummary == [claimed |-> 0, sent |-> 0, failed |-> 0, failures |-> <<>>]
NoEntry == [owner_id |-> "", expires_at |-> NULL]
CbIdle == [pc |-> "idle", state |-> NULL, owner_id |-> "", refresh_token |-> "",
           response |-> ""]
UpIdle == [pc |-> "idle", id |-> NULL, sequence_id |-> NULL, step_order |-> NULL,
           stepOrder |-> NULL, response |-> NULL]

(* the job the invocation is processing: the row as claim returned it     *)
Job(w) == Head(batch[w])

(* ----------------------- claim_scheduled_emails ------------------------ *)
(* the row with the latest scheduled_for                                  *)
Latest(js, S) ==
  CHOOSE i \in S : \A k \in S : js[k].scheduled_for <= js[i].scheduled_for

(* a selection that does not look at scheduled_for                        *)
DueAtAnyTime(js, t) == {i \in 1..Len(js) : js[i].status = "scheduled"}

(* the rows claim may select at time t                                    *)
Due(js, t) == {i \in 1..Len(js) : js[i].status = "scheduled" /\ js[i].scheduled_for <= t}

(* earliest scheduled_for first, ties by insertion order                  *)
First(js, S) ==
  CHOOSE i \in S : \A k \in S :
      \/ js[i].scheduled_for < js[k].scheduled_for
      \/ (js[i].scheduled_for = js[k].scheduled_for /\ i <= k)

RECURSIVE Pick(_, _, _)
Pick(js, S, n) ==
  IF n = 0 \/ S = {} THEN <<>>
  ELSE LET i == First(js, S) IN <<i>> \o Pick(js, S \ {i}, n - 1)

ClaimFlipsStatus(js, ids) ==
  [i \in 1..Len(js) |->
     IF \E k \in 1..Len(ids) : ids[k] = i THEN [js[i] EXCEPT !.status = "claimed"] ELSE js[i]]

ClaimSelect(js, t, n) == Pick(js, Due(js, t), n)

Snapshot(js, ids) == [k \in 1..Len(ids) |-> [id |-> ids[k], row |-> js[ids[k]]]]

InitOther ==
  /\ now = 1
  /\ credentials \in [Owners -> {"token", "null"}]
  /\ runs = <<>>
  /\ pc = [w \in Workers |-> "idle"]
  /\ batch = [w \in Workers |-> <<>>]
  /\ wl = [w \in Workers |-> NoLocals]
  /\ st = StIdle
  /\ sendFailures = 0
  /\ storeFaults = 0
  /\ sends = [i \in 1..MaxTable |-> [accepted |-> 0, failed |-> 0]]
  /\ events = <<>>
  /\ replied = {}
  /\ req = [w \in Workers |-> NoRequest]
  /\ stateStore = <<>>
  /\ cb = [c \in Callbacks |-> CbIdle]
  /\ exchanges = [s \in StateIds |-> 0]
  /\ sequence_steps = Steps
  /\ up = [u \in Upserts |-> UpIdle]
  /\ summary = [w \in Workers |-> NoSummary]

(* empty tables                                                            *)
InitStore == InitOther /\ jobs = <<>>

(* a deployment with WORKER_SECRET set                                     *)
Init == InitStore /\ workerSecret = 1

(* line 121: incomingSecret !== WORKER_SECRET, negated; an absent header   *)
(* and an unset variable are both undefined                                *)
Authorized(incomingSecret, secret) == incomingSecret = secret

(* handler lines 113-143: a GET whose secret passes the check claims a    *)
(* batch; an empty batch answers 'no jobs'.                               *)
(* Invocations that are not running are alike: the one with the least     *)
(* number starts                                                          *)
Claim(w) ==
  /\ pc[w] = "idle"
  /\ \A v \in Workers : v < w => pc[v] # "idle"
  /\ \E incomingSecret \in Secrets \cup {NULL} :
       /\ Authorized(incomingSecret, workerSecret)
       /\ req' = [req EXCEPT ![w] = [secret |-> incomingSecret, response |-> NULL]]
  /\ LET ids == ClaimSelect(jobs, now, BATCH_SIZE) IN
       /\ ids # <<>>
       /\ batch' = [batch EXCEPT ![w] = Snapshot(jobs, ids)]
       /\ jobs' = ClaimFlipsStatus(jobs, ids)
       /\ pc' = [pc EXCEPT ![w] = "job"]
       /\ summary' = [summary EXCEPT ![w] = [NoSummary EXCEPT !.claimed = Len(ids)]]
  /\ UNCHANGED <<now, credentials, runs, wl, st, sendFailures, storeFaults>>
  /\ UNCHANGED <<sends, events, replied, workerSecret, oauthVars, stepVars>>

(* advance to the next job of the batch, or end the invocation (line 335) *)
NextJob(w) ==
  /\ batch' = [batch EXCEPT ![w] = Tail(@)]
  /\ pc' = [pc EXCEPT ![w] = IF Len(batch[w]) > 1 THEN "job" ELSE "idle"]
  /\ wl' = [wl EXCEPT ![w] = NoLocals]
  /\ req' = IF Len(batch[w]) > 1 THEN req ELSE [req EXCEPT ![w] = NoRequest]

Goto(w, l) == pc' = [pc EXCEPT ![w] = l]

(* a store call fails only while the behaviour has faults left            *)
MayFail(n) == n < MaxStoreFaults

(* a write whose result the code drops: applied, or lost as fault n + 1   *)
Lost(n) == IF MayFail(n) THEN BOOLEAN ELSE {FALSE}
Count(n, lost) == IF lost THEN n + 1 ELSE n

(* the stored value, zero included                                        *)
AttemptsAsStored(a) == a

(* line 308: job.attempts || 1                                            *)
AttemptsOrOne(a) == IF a = 0 THEN 1 ELSE a

(* a failure-path update that records the error and leaves the status     *)
RetryUpdateKeepsStatus(row, job, t) ==
  [row EXCEPT !.last_error = "error", !.attempts = AttemptsOrOne(job.attempts) + 1]

(* lines 309-326: the row after the failure-path update; job is the row   *)
(* as it was claimed                                                      *)
RetryUpdate(row, job, t) ==
  LET attempts == AttemptsOrOne(job.attempts) IN
  IF attempts < MAX_ATTEMPTS
  THEN [row EXCEPT !.status = "scheduled", !.scheduled_for = t + Pow2(attempts),
                   !.last_error = "error", !.attempts = attempts + 1]
  ELSE [row EXCEPT !.status = "failed", !.last_error = "error",
                   !.attempts = AttemptsOrOne(job.attempts) + 1]

(* summary.failed++; summary.failures.push({ id: jobId, ... })              *)
CountFailed(w) ==
  summary' = [summary EXCEPT ![w].failed = @ + 1, ![w].failures = Append(@, Job(w).id)]

(* line 184: summary.sent++                                                *)
CountSent(w) == summary' = [summary EXCEPT ![w].sent = @ + 1]

(* lines 305-334: the outer catch: backoff or fail, count the job failed,  *)
(* then the next job; a failure of this write is logged and swallowed.     *)
(* n: store faults so far                                                  *)
RetryPath(w, n) ==
  /\ \E lost \in Lost(n) :
       /\ jobs' = IF ~lost
                  THEN [jobs EXCEPT ![Job(w).id] = RetryUpdate(@, Job(w).row, now)]
                  ELSE jobs
       /\ storeFaults' = Count(n, lost)
  /\ CountFailed(w)
  /\ NextJob(w)

(* an update that puts the job back in the queue instead                 *)
NoTokenRequeues(row) == [row EXCEPT !.status = "scheduled", !.attempts = @ + 1]

(* lines 157-161: the update for a tenant without a refresh token         *)
NoTokenUpdate(row) == [row EXCEPT !.status = "failed", !.last_error = "no_refresh_token"]

(* an update that hands the job back to the queue instead                 *)
SentUpdateRequeues(row) == [row EXCEPT !.status = "scheduled"]

(* lines 178-182: the update that marks the job sent                       *)
SentUpdate(row) == [row EXCEPT !.status = "sent"]

(* lines 146-187: load the credential, send, mark sent.  credErr or a     *)
(* throwing send goes to the outer catch; no refresh token marks the job  *)
(* failed; else the provider accepts the message and returns a thread id  *)
(* or none, and the job is marked sent by an update whose result is not   *)
(* looked at                                                              *)
SendJob(w) ==
  /\ pc[w] = "job"
  /\ \/ /\ sendFailures < MaxSendFailures
        /\ sendFailures' = sendFailures + 1
        /\ sends' = [sends EXCEPT ![Job(w).id].failed = @ + 1]
        /\ RetryPath(w, storeFaults)
     \/ /\ credentials[Job(w).row.owner_id] # "token"
        /\ \E lost \in Lost(storeFaults) :
             /\ jobs' = IF ~lost THEN [jobs EXCEPT ![Job(w).id] = NoTokenUpdate(@)]
                        ELSE jobs
             /\ storeFaults' = Count(storeFaults, lost)
        /\ CountFailed(w)
        /\ NextJob(w)
        /\ UNCHANGED <<sendFailures, sends>>
     \/ /\ credentials[Job(w).row.owner_id] = "token"
        /\ sends' = [sends EXCEPT ![Job(w).id].accepted = @ + 1]
        /\ CountSent(w)
        /\ \E lost \in Lost(storeFaults) :
             /\ jobs' = IF ~lost THEN [jobs EXCEPT ![Job(w).id] = SentUpdate(@)] ELSE jobs
             /\ storeFaults' = Count(storeFaults, lost)
        /\ IF Job(w).row.sequence_run_id # NULL /\ Job(w).row.step_id # NULL
           THEN /\ \E th \in ThreadIds \cup {NULL} : wl' = [wl EXCEPT ![w].threadId = th]
                /\ Goto(w, "post")
                /\ UNCHANGED <<batch, req>>
           ELSE NextJob(w)
        /\ UNCHANGED sendFailures
  /\ UNCHANGED <<now, credentials, runs, st, events, replied>>
  /\ UNCHANGED <<workerSecret, oauthVars, stepVars>>

(* lines 290-302: the handler of a post-send error inserts a failed event *)
(* with insert(...).catch(...).  Where the query builder is a thenable    *)
(* without a catch method the call throws a TypeError, which leaves the   *)
(* inner handler for the outer catch (line 305); else the error ends here *)
(* n: store faults so far, the error being handled included; ev: the      *)
(* events so far.  The builder that threw was never awaited: no row       *)
Event(job, status) ==
  [sequence_run_id |-> job.sequence_run_id, step_id |-> job.step_id, status |-> status]

PostSendError(w, n, ev) ==
  \/ /\ events' = Append(ev, Event(Job(w).row, "failed"))
     /\ NextJob(w) /\ storeFaults' = n /\ UNCHANGED <<jobs, summary>>
  \/ /\ events' = ev
     /\ RetryPath(w, n)

(* lines 209-215: the update payload; thread_id: undefined leaves the     *)
(* column alone, a thread id from the provider is written                 *)
RunUpdate(run, stepOrder, threadId, t) ==
  [run EXCEPT !.current_step = stepOrder,
              !.thread_id = IF threadId # NULL THEN threadId ELSE @,
              !.last_sent_at = t]

(* lines 217-227: what the handler keeps of the run row it reads back     *)
ReadBack(runRow, threadId, t) ==
  [sinceMs |-> IF runRow.last_sent_at # NULL THEN runRow.last_sent_at ELSE t,
   recipientEmail |-> runRow.recipient_email,
   runThreadId |-> IF runRow.thread_id # NULL THEN runRow.thread_id ELSE threadId]

(* lines 189-231: insert the sent event (result not looked at), look the  *)
(* step up (stepErr throws), update the run (result not looked at), read  *)
(* it back (runErr throws) and ask the reply detector (lines 64-106): no  *)
(* thread id, no reply; else the provider's answer                        *)
PostSend(w) ==
  /\ pc[w] = "post"
  /\ \E lostEvent \in Lost(storeFaults) :
       LET ev == IF ~lostEvent THEN Append(events, Event(Job(w).row, "sent")) ELSE events
           n0 == Count(storeFaults, lostEvent)
       IN
       \/ /\ MayFail(n0)                                   \* stepErr
          /\ PostSendError(w, n0 + 1, ev)
          /\ UNCHANGED <<runs, replied>>
       \/ \E lost \in Lost(n0) :
            LET r == Job(w).row.sequence_run_id
                stepRow == Steps[Job(w).row.step_id]
                updated == IF ~lost
                           THEN [runs EXCEPT ![r] = RunUpdate(@, stepRow.step_order,
                                                              wl[w].threadId, now)]
                           ELSE runs
                rb == ReadBack(updated[r], wl[w].threadId, now)
                n == Count(n0, lost)
            IN
            /\ runs' = updated
            /\ \/ /\ MayFail(n)                            \* runErr
                  /\ PostSendError(w, n + 1, ev)
                  /\ UNCHANGED replied
               \/ /\ wl' = [wl EXCEPT ![w].currentStepOrder = stepRow.step_order,
                                      ![w].sequenceId = stepRow.sequence_id,
                                      ![w].sinceMs = rb.sinceMs,
                                      ![w].recipientEmail = rb.recipientEmail,
                                      ![w].runThreadId = rb.runThreadId]
                  /\ \E answer \in (IF rb.runThreadId = NULL THEN {FALSE} ELSE BOOLEAN) :
                       /\ Goto(w, IF answer THEN "stop" ELSE "next")
                       /\ replied' = IF answer THEN replied \cup {r} ELSE replied
                  /\ events' = ev
                  /\ storeFaults' = n
                  /\ UNCHANGED <<jobs, batch, req, summary>>
  /\ UNCHANGED <<now, credentials, st, sendFailures, sends>>
  /\ UNCHANGED <<workerSecret, oauthVars, stepVars>>

(* the reply gate without its continue: the run is marked stopped and the *)
(* handler goes on to the next-step lookup                                *)
StopRunFallsThrough(w) ==
  /\ pc[w] = "stop"
  /\ runs' = [runs EXCEPT ![Job(w).row.sequence_run_id].status = "stopped"]
  /\ Goto(w, "next")
  /\ UNCHANGED <<now, credentials, jobs, batch, wl, st, sendFailures, storeFaults>>
  /\ UNCHANGED <<sends, events, replied, workerSecret, req, oauthVars, stepVars>>
  /\ UNCHANGED summary

(* lines 231-240: mark the run stopped, continue with the next job        *)
StopRun(w) ==
  /\ pc[w] = "stop"
  /\ \E lost \in Lost(storeFaults) :
       /\ runs' = IF ~lost
                  THEN [runs EXCEPT ![Job(w).row.sequence_run_id].status = "stopped"]
                  ELSE runs
       /\ storeFaults' = Count(storeFaults, lost)
  /\ NextJob(w)
  /\ UNCHANGED <<now, credentials, jobs, st, sendFailures, sends, events, replied>>
  /\ UNCHANGED <<workerSecret, oauthVars, stepVars, summary>>

(* a lookup that does not look at the sequence                            *)
NextStepOfAnySequence(sequenceId, stepOrder) ==
  LET C == {i \in 1..Len(Steps) : Steps[i].step_order > stepOrder}
  IN IF C = {} THEN NULL
     ELSE CHOOSE i \in C : \A k \in C : Steps[i].step_order <= Steps[k].step_order

(* a lookup that finds no further step                                    *)
NoNextStep(sequenceId, stepOrder) == NULL

(* lines 244-251: the step of the sequence with the smallest step_order   *)
(* above the current one, NULL when there is none                         *)
NextStep(sequenceId, stepOrder) ==
  LET C == {i \in 1..Len(Steps) :
              Steps[i].sequence_id = sequenceId /\ Steps[i].step_order > stepOrder}
  IN IF C = {} THEN NULL
     ELSE CHOOSE i \in C : \A k \in C : Steps[i].step_order <= Steps[k].step_order

(* a follow-up row scheduled at once, whatever the step's delay_days       *)
FollowUpJobAtOnce(job, recipientEmail, nextStep, t) ==
  [status |-> "scheduled", attempts |-> 0, scheduled_for |-> t,
   owner_id |-> job.owner_id, to_email |-> recipientEmail,
   timezone |-> IF job.timezone # "" THEN job.timezone ELSE DEFAULT_TIMEZONE,
   sequence_run_id |-> job.sequence_run_id, step_id |-> nextStep,
   last_error |-> ""]

(* lines 255-277: the follow-up row                                        *)
FollowUpJob(job, recipientEmail, nextStep, t) ==
  [status |-> "scheduled", attempts |-> 0,
   scheduled_for |-> t + Steps[nextStep].delay_days * MinutesPerDay,
   owner_id |-> job.owner_id, to_email |-> recipientEmail,
   timezone |-> IF job.timezone # "" THEN job.timezone ELSE DEFAULT_TIMEZONE,
   sequence_run_id |-> job.sequence_run_id, step_id |-> nextStep,
   last_error |-> ""]

(* lines 242-289: find the next step (nextStepErr throws); insert its job *)
(* (newJobErr throws) or mark the run completed                           *)
AdvanceRun(w) ==
  /\ pc[w] = "next"
  /\ IF wl[w].sequenceId = NULL \/ wl[w].currentStepOrder = NULL
     THEN NextJob(w) /\ UNCHANGED <<jobs, runs, storeFaults, events, summary>>
     ELSE LET nextStep == NextStep(wl[w].sequenceId, wl[w].currentStepOrder) IN
          \/ /\ MayFail(storeFaults)                       \* nextStepErr, newJobErr
             /\ PostSendError(w, storeFaults + 1, events)
             /\ UNCHANGED runs
          \/ /\ nextStep # NULL
             /\ Len(jobs) < MaxJobs
             /\ jobs' = Append(jobs, FollowUpJob(Job(w).row, wl[w].recipientEmail, nextStep, now))
             /\ NextJob(w)
             /\ UNCHANGED <<runs, storeFaults, events, summary>>
          \/ /\ nextStep = NULL
             /\ \E lost \in Lost(storeFaults) :
                  /\ runs' = IF ~lost
                             THEN [runs EXCEPT ![Job(w).row.sequence_run_id].status = "completed"]
                             ELSE runs
                  /\ storeFaults' = Count(storeFaults, lost)
             /\ NextJob(w)
             /\ UNCHANGED <<jobs, events, summary>>
  /\ UNCHANGED <<now, credentials, st, sendFailures, sends, replied>>
  /\ UNCHANGED <<workerSecret, oauthVars, stepVars>>

Worker(w) ==
  \/ Claim(w) \/ SendJob(w) \/ PostSend(w) \/ StopRun(w) \/ AdvanceRun(w)

(* ---------------------------- start_sequence --------------------------- *)
(* sequence_recipients table                                              *)
SequenceRecipients(sequence_id) == IF sequence_id = 1 THEN <<"a@x.com">> ELSE <<>>

(* line 37-41: the steps of a sequence, ascending step_order              *)
RECURSIVE SortedSteps(_)
SortedSteps(S) ==
  IF S = {} THEN <<>>
  ELSE LET i == CHOOSE i \in S : \A k \in S : Steps[i].step_order <= Steps[k].step_order
       IN <<i>> \o SortedSteps(S \ {i})
StepsOf(sequence_id) == SortedSteps({i \in 1..Len(Steps) : Steps[i].sequence_id = sequence_id})

(* request bodies: recipients absent, or one address given n times        *)
RecipientLists ==
  {[k \in 1..n |-> "a@x.com"] : n \in 0..MaxRecipients}

(* lines 31-59: validate, load steps and recipients; the request gives    *)
(* first_send_time from FirstSendTimes, NULL standing for none, and        *)
(* timezone from Timezones, "" standing for none.                          *)
(* recipients is the part of finalRecipients the loop has yet to visit     *)
StartRequest(FirstSendTimes, Timezones) ==
  /\ st.pc = "idle"
  /\ \E sequence_id \in SequenceIds, owner_id \in Owners,
        recipients \in RecipientLists, first_send_time \in FirstSendTimes,
        timezone \in Timezones :
       LET finalRecipients == IF recipients # <<>> THEN recipients
                              ELSE SequenceRecipients(sequence_id) IN
       /\ StepsOf(sequence_id) # <<>>
       /\ finalRecipients # <<>>
       /\ Len(runs) + Len(finalRecipients) <= MaxRuns
       /\ st' = [pc |-> "run", sequence_id |-> sequence_id, owner_id |-> owner_id,
                 first_send_time |-> first_send_time,
                 tz |-> IF timezone # "" THEN timezone ELSE DEFAULT_TIMEZONE,
                 finalRecipients |-> finalRecipients,
                 recipients |-> finalRecipients,
                 scheduledBase |-> IF first_send_time # NULL THEN first_send_time ELSE now,
                 runId |-> NULL, createdRuns |-> <<>>, createdJobs |-> <<>>,
                 response |-> NULL]
  /\ UNCHANGED <<now, credentials, jobs, runs, pc, batch, wl, sendFailures, storeFaults>>
  /\ UNCHANGED <<sends, events, replied, workerSecret, req, oauthVars, stepVars>>
  /\ UNCHANGED summary

(* requests that leave first_send_time out                                 *)
StartBegin == StartRequest({NULL}, {""})

(* a run row that starts past its first step                              *)
NewRunAtStepOne(sequence_id, email, owner_id) ==
  [sequence_id |-> sequence_id, recipient_email |-> email, owner_id |-> owner_id,
   current_step |-> 1, status |-> "active", thread_id |-> NULL, last_sent_at |-> NULL]

(* lines 64-72: the run row                                               *)
NewRun(sequence_id, email, owner_id) ==
  [sequence_id |-> sequence_id, recipient_email |-> email, owner_id |-> owner_id,
   current_step |-> 0, status |-> "active", thread_id |-> NULL, last_sent_at |-> NULL]

(* lines 63-81: insert the run of the next recipient (runErr: 500, line   *)
(* 113-116, with what was created left as it is)                          *)
StartInsertRun ==
  /\ st.pc = "run"
  /\ \/ /\ MayFail(storeFaults)                            \* runErr: 500
        /\ storeFaults' = storeFaults + 1
        /\ st' = [st EXCEPT !.pc = "idle", !.response = 500]
        /\ UNCHANGED runs
     \/ /\ runs' = Append(runs, NewRun(st.sequence_id, Head(st.recipients), st.owner_id))
        /\ st' = [st EXCEPT !.pc = "job", !.runId = Len(runs) + 1,
                            !.createdRuns = Append(@, Len(runs) + 1)]
        /\ UNCHANGED storeFaults
  /\ UNCHANGED <<now, credentials, jobs, pc, batch, wl, sendFailures>>
  /\ UNCHANGED <<sends, events, replied, workerSecret, req, oauthVars, stepVars>>
  /\ UNCHANGED summary

(* lines 87-100: the job row of the first step                            *)
FirstJob(owner_id, email, scheduledBase, tz, runId, firstStep) ==
  [status |-> "scheduled", attempts |-> 0, scheduled_for |-> scheduledBase,
   owner_id |-> owner_id, to_email |-> email, timezone |-> tz,
   sequence_run_id |-> runId, step_id |-> firstStep, last_error |-> ""]

(* a starter that takes back the run whose job it could not insert        *)
StartInsertJobRollsBack ==
  /\ st.pc = "job"
  /\ MayFail(storeFaults)
  /\ storeFaults' = storeFaults + 1
  /\ st' = [st EXCEPT !.pc = "idle", !.response = 500]
  /\ runs' = SubSeq(runs, 1, Len(runs) - 1)
  /\ UNCHANGED <<now, credentials, jobs, pc, batch, wl, sendFailures>>
  /\ UNCHANGED <<sends, events, replied, workerSecret, req, oauthVars, stepVars>>
  /\ UNCHANGED summary

(* lines 83-116: schedule the first step for that run; after the last     *)
(* recipient answer 201 with createdRuns and createdJobs                  *)
StartInsertJob ==
  /\ st.pc = "job"
  /\ \/ /\ MayFail(storeFaults)                            \* jobErr: 500
        /\ storeFaults' = storeFaults + 1
        /\ st' = [st EXCEPT !.pc = "idle", !.response = 500]
        /\ UNCHANGED jobs
     \/ /\ Len(jobs) < MaxJobs
        /\ jobs' = Append(jobs, FirstJob(st.owner_id, Head(st.recipients), st.scheduledBase,
                                         st.tz, st.runId, StepsOf(st.sequence_id)[1]))
        /\ st' = IF Len(st.recipients) > 1
                 THEN [st EXCEPT !.pc = "run", !.recipients = Tail(@), !.runId = NULL,
                                 !.createdJobs = Append(@, Len(jobs) + 1)]
                 ELSE [StIdle EXCEPT !.response = 201,
                                     !.createdRuns = st.createdRuns,
                                     !.createdJobs = Append(st.createdJobs, Len(jobs) + 1)]
        /\ UNCHANGED storeFaults
  /\ UNCHANGED <<now, credentials, runs, pc, batch, wl, sendFailures>>
  /\ UNCHANGED <<sends, events, replied, workerSecret, req, oauthVars, stepVars>>
  /\ UNCHANGED summary

StartSequence == StartBegin \/ StartInsertRun \/ StartInsertJob

(* ----------------------------- environment ----------------------------- *)
(* a run is cancelled from outside by flipping its status; the run is one *)
(* whose first job exists                                                 *)
CancelRun ==
  /\ \E r \in RunIds :
       /\ runs[r].status = "active"
       /\ st.pc = "job" => st.runId # r
       /\ runs' = [runs EXCEPT ![r].status = "stopped"]
  /\ UNCHANGED <<now, credentials, jobs, pc, batch, wl, st, sendFailures, storeFaults>>
  /\ UNCHANGED <<sends, events, replied, workerSecret, req, oauthVars, stepVars>>
  /\ UNCHANGED summary

(* time passes until the next scheduled job falls due.  An invocation of  *)
(* the worker ends within the minute it starts: the clock moves between   *)
(* invocations                                                            *)
AdvanceToDue ==
  /\ \A w \in Workers : pc[w] = "idle"
  /\ LET F == {jobs[i].scheduled_for : i \in {k \in JobIds :
                 jobs[k].status = "scheduled" /\ jobs[k].scheduled_for > now}} IN
       /\ F # {}
       /\ now' = CHOOSE t \in F : \A u \in F : t <= u
  /\ UNCHANGED <<credentials, jobs, runs, pc, batch, wl, st, sendFailures, storeFaults>>
  /\ UNCHANGED <<sends, events, replied, workerSecret, req, oauthVars, stepVars>>
  /\ UNCHANGED summary

Next ==
  \/ \E w \in Workers : Worker(w)
  \/ StartSequence
  \/ CancelRun
  \/ AdvanceToDue

Spec == Init /\ [][Next]_vars

(* --------------------------- the happy path ---------------------------- *)
(* every send is accepted, no store call fails, no reply is reported       *)
Happy ==
  /\ sendFailures' = sendFailures
  /\ storeFaults' = storeFaults
  /\ replied' = replied

(* the jobs the runs in the store, and those the request at hand will      *)
(* insert, need over their whole life: one per step of their sequence      *)
RECURSIVE JobsOfRuns(_)
JobsOfRuns(n) ==
  IF n = 0 THEN 0 ELSE Len(StepsOf(runs[n].sequence_id)) + JobsOfRuns(n - 1)

JobsNeeded(request) ==
  JobsOfRuns(Len(runs)) + Len(request.recipients) * Len(StepsOf(request.sequence_id))

(* requests, for now or for a later first send, come only while the jobs   *)
(* they lead to fit the model's table                                      *)
HappyStartBegin ==
  StartRequest({NULL, FirstSendTime}, {""}) /\ JobsNeeded(st') <= MaxJobs

HappyWorker(w) == (Claim(w) \/ SendJob(w) \/ PostSend(w) \/ AdvanceRun(w)) /\ Happy

HappyStart == HappyStartBegin \/ ((StartInsertRun \/ StartInsertJob) /\ Happy)

HappyNext ==
  \/ \E w \in Workers : HappyWorker(w)
  \/ HappyStart
  \/ AdvanceToDue

(* the scheduler keeps invoking the worker, a handler that has started     *)
(* runs to its end, and time passes                                        *)
HappySpec == Init /\ [][HappyNext]_vars /\ WF_vars(HappyNext)

(* ---------------------- claiming from a full table --------------------- *)
(* an email scheduled outside any sequence                                 *)
PlainJob(status, scheduled_for) ==
  [status |-> status, attempts |-> 0, scheduled_for |-> scheduled_for,
   owner_id |-> "T1", to_email |-> "a@x.com", timezone |-> "",
   sequence_run_id |-> NULL, step_id |-> NULL, last_error |-> ""]

(* a table of MaxTable emails, more than a batch holds: each scheduled or  *)
(* sent before the behaviour starts, due now or a minute from now          *)
ClaimInit ==
  /\ InitOther
  /\ workerSecret = 1
  /\ jobs \in [1..MaxTable -> {PlainJob(status, t) : status \in {"scheduled", "sent"},
                                                    t \in {1, 2}}]

ClaimNext ==
  \/ \E w \in Workers : HappyWorker(w)
  \/ AdvanceToDue

(* the scheduler keeps invoking the worker                                 *)
ClaimSpec == ClaimInit /\ [][ClaimNext]_vars /\ WF_vars(ClaimNext)

(* ------------------- start_sequence, any request ----------------------- *)
(* requests with and without first_send_time, store errors in the          *)
(* starter, and a worker whose sends are accepted                          *)
StartNext ==
  \/ StartRequest({NULL, FirstSendTime}, {"", "UTC"})
  \/ StartInsertRun
  \/ StartInsertJob
  \/ \E w \in Workers : HappyWorker(w)
  \/ AdvanceToDue

StartSpec == Init /\ [][StartNext]_vars

(* --------------------- the OAuth helper (index.js) ---------------------- *)

(* stateStore.get(state): NoEntry stands for undefined                     *)
Get(store, state) == IF state \in 1..Len(store) THEN store[state] ELSE NoEntry

(* an operation that leaves the state in the store                         *)
Keep(store, state) == store

(* stateStore.delete(state)                                                *)
Delete(store, state) == [store EXCEPT ![state] = NoEntry]

(* POST /oauth/start, lines 157-167: a fresh nonce with its owner and an   *)
(* expiry 15 minutes ahead                                                 *)
OAuthStart ==
  /\ Len(stateStore) < MaxStates
  /\ \E owner_id \in Owners :
       stateStore' = Append(stateStore,
                            [owner_id |-> owner_id, expires_at |-> now + STATE_TTL])
  /\ UNCHANGED <<now, credentials, jobs, runs, pc, batch, wl, st, sendFailures, storeFaults>>
  /\ UNCHANGED <<sends, events, replied, workerSecret, req, cb, exchanges, stepVars>>
  /\ UNCHANGED summary

(* GET /oauth2/callback, lines 184-204, up to the await of the token       *)
(* exchange: get and delete run without a suspension point between them;   *)
(* the request to the provider leaves before the handler suspends.         *)
(* state NULL stands for a request without code or state.                  *)
CallbackBegin(c) ==
  /\ cb[c].pc = "idle"
  /\ \E state \in StateIds \cup {NULL} :
       LET entry == Get(stateStore, state) IN
       IF state = NULL
       THEN /\ cb' = [cb EXCEPT ![c] = [CbIdle EXCEPT !.response = "400 Missing code or state."]]
            /\ UNCHANGED <<stateStore, exchanges>>
       ELSE IF entry = NoEntry
       THEN /\ cb' = [cb EXCEPT ![c] = [CbIdle EXCEPT !.state = state,
                                               !.response = "400 Invalid or expired state."]]
            /\ UNCHANGED <<stateStore, exchanges>>
       ELSE /\ stateStore' = Delete(stateStore, state)
            /\ exchanges' = [exchanges EXCEPT ![state] = @ + 1]
            /\ cb' = [cb EXCEPT ![c] = [pc |-> "exchange", state |-> state,
                                        owner_id |-> entry.owner_id,
                                        refresh_token |-> "", response |-> ""]]
  /\ UNCHANGED <<now, credentials, jobs, runs, pc, batch, wl, st, sendFailures, storeFaults>>
  /\ UNCHANGED <<sends, events, replied, workerSecret, req, summary, stepVars>>

(* lines 194-243: the exchange answers or throws (500); the credential row *)
(* is upserted with the refresh token or null; a failed upsert is logged   *)
(* and the browser is redirected all the same. refresh_token is the one    *)
(* the exchange returned, "null" when it returned none.                    *)
CallbackFinish(c) ==
  /\ cb[c].pc = "exchange"
  /\ \/ /\ cb' = [cb EXCEPT ![c].pc = "idle", ![c].response = "500"]
        /\ UNCHANGED credentials
     \/ \E refresh_token \in {"token", "null"}, stored \in BOOLEAN :
          /\ credentials' = IF stored
                            THEN [credentials EXCEPT ![cb[c].owner_id] = refresh_token]
                            ELSE credentials
          /\ cb' = [cb EXCEPT ![c].pc = "idle", ![c].refresh_token = refresh_token,
                               ![c].response = "302"]
  /\ UNCHANGED <<now, jobs, runs, pc, batch, wl, st, sendFailures, storeFaults>>
  /\ UNCHANGED <<sends, events, replied, workerSecret, req, stateStore, exchanges>>
  /\ UNCHANGED summary
  /\ UNCHANGED stepVars

(* Date.now() moves on, to the expiry of a stored state or just past it    *)
PassTime ==
  /\ \E s \in 1..Len(stateStore), d \in {0, 1} :
       /\ stateStore[s] # NoEntry
       /\ now < stateStore[s].expires_at + d
       /\ now' = stateStore[s].expires_at + d
  /\ UNCHANGED <<credentials, jobs, runs, pc, batch, wl, st, sendFailures, storeFaults>>
  /\ UNCHANGED <<sends, events, replied, workerSecret, req, oauthVars, stepVars>>
  /\ UNCHANGED summary

(* GET /status, line 267: connected is !!data.refresh_token                *)
Connected(owner_id) == credentials[owner_id] = "token"

OAuthNext ==
  \/ OAuthStart
  \/ \E c \in Callbacks : CallbackBegin(c) \/ CallbackFinish(c)
  \/ PassTime

OAuthSpec == Init /\ [][OAuthNext]_vars

(* ------------------ writing steps: sequence_step_upsert ----------------- *)
StepIds == 1..Len(sequence_steps)

(* the handlers below change sequence_steps and up only                    *)
StepFrame ==
  /\ UNCHANGED <<now, credentials, jobs, runs, pc, batch, wl, st, sendFailures, storeFaults>>
  /\ UNCHANGED <<sends, events, replied, workerSecret, req, summary, oauthVars>>

RECURSIVE MaxOf(_)
MaxOf(S) == IF S = {} THEN 0
            ELSE LET x == CHOOSE x \in S : TRUE
                     m == MaxOf(S \ {x})
                 IN IF x > m THEN x ELSE m

(* lines 104-112: the highest step_order of the sequence, 0 when it has    *)
(* no step                                                                 *)
MaxOrderOf(table, sequence_id) ==
  MaxOf({table[i].step_order : i \in {k \in 1..Len(table) : table[k].sequence_id = sequence_id}})

(* lines 117-123: a step of the sequence has that step_order               *)
Conflict(table, sequence_id, stepOrder) ==
  \E i \in 1..Len(table) :
    table[i].sequence_id = sequence_id /\ table[i].step_order = stepOrder

(* the answer; the locals of the invocation are gone                       *)
Respond(u, status) == up' = [up EXCEPT ![u] = [UpIdle EXCEPT !.response = status]]

(* lines 30-61: a valid body for an existing sequence; id NULL asks for an *)
(* insert, step_order NULL for the next free order.  Invocations that are  *)
(* not running are alike: the one with the least number starts             *)
UpsertBegin(u) ==
  /\ up[u].pc = "idle"
  /\ \A v \in Upserts : v < u => up[v].pc # "idle"
  /\ \E id \in (1..MaxSteps) \cup {NULL}, sequence_id \in SequenceIds,
        step_order \in (1..MaxOrder) \cup {NULL} :
       up' = [up EXCEPT ![u] = [pc |-> IF id # NULL THEN "existing" ELSE "order",
                                id |-> id, sequence_id |-> sequence_id,
                                step_order |-> step_order, stepOrder |-> NULL,
                                response |-> NULL]]
  /\ UNCHANGED sequence_steps
  /\ StepFrame

(* lines 64-78: the step must exist (404) and belong to the sequence (400) *)
UpsertExisting(u) ==
  /\ up[u].pc = "existing"
  /\ IF up[u].id \notin StepIds
     THEN Respond(u, 404)
     ELSE IF sequence_steps[up[u].id].sequence_id # up[u].sequence_id
     THEN Respond(u, 400)
     ELSE up' = [up EXCEPT ![u].pc = "update"]
  /\ UNCHANGED sequence_steps
  /\ StepFrame

(* lines 81-98: update the row, step_order only when the body gives one    *)
UpsertUpdate(u) ==
  /\ up[u].pc = "update"
  /\ sequence_steps' = IF up[u].step_order # NULL
                       THEN [sequence_steps EXCEPT ![up[u].id].step_order = up[u].step_order]
                       ELSE sequence_steps
  /\ Respond(u, 200)
  /\ StepFrame

(* lines 100-130: the order to insert at: max + 1, or the one given unless *)
(* a step has it (409)                                                     *)
UpsertOrder(u) ==
  /\ up[u].pc = "order"
  /\ IF up[u].step_order = NULL
     THEN up' = [up EXCEPT ![u].pc = "insert",
                           ![u].stepOrder = MaxOrderOf(sequence_steps, up[u].sequence_id) + 1]
     ELSE IF Conflict(sequence_steps, up[u].sequence_id, up[u].step_order)
     THEN Respond(u, 409)
     ELSE up' = [up EXCEPT ![u].pc = "insert", ![u].stepOrder = up[u].step_order]
  /\ UNCHANGED sequence_steps
  /\ StepFrame

(* lines 132-150: insert the step                                          *)
UpsertInsert(u) ==
  /\ up[u].pc = "insert"
  /\ Len(sequence_steps) < MaxSteps
  /\ sequence_steps' = Append(sequence_steps,
                              [sequence_id |-> up[u].sequence_id,
                               step_order |-> up[u].stepOrder, delay_days |-> 0])
  /\ Respond(u, 201)
  /\ StepFrame

(* /api/steps lines 59, 68-73: step_order as given, the position in the    *)
(* array when the entry has none                                           *)
Normalize(sequence_id, bodySteps) ==
  [i \in 1..Len(bodySteps) |->
     [sequence_id |-> sequence_id,
      step_order |-> IF bodySteps[i] # NULL THEN bodySteps[i] ELSE i,
      delay_days |-> 0]]

(* /api/steps lines 55-91: all steps of the body in one insert; an entry   *)
(* of the body is its step_order, NULL when it gives none                  *)
BulkInsert ==
  /\ \E sequence_id \in SequenceIds, n \in 1..MaxBulk :
       \E bodySteps \in [1..n -> (1..MaxOrder) \cup {NULL}] :
         /\ Len(sequence_steps) + n <= MaxSteps
         /\ sequence_steps' = sequence_steps \o Normalize(sequence_id, bodySteps)
  /\ UNCHANGED up
  /\ StepFrame

StepsNext ==
  \/ \E u \in Upserts :
       \/ UpsertBegin(u)
       \/ UpsertExisting(u)
       \/ UpsertUpdate(u)
       \/ UpsertOrder(u)
       \/ UpsertInsert(u)
  \/ BulkInsert

StepsSpec == Init /\ [][StepsNext]_vars

(* ------------------- the worker's secret check ------------------------- *)

(* handler lines 113-124: the secret presented fails the check; 401, and   *)
(* the handler returns before it touches the store                         *)
Reject(w) ==
  /\ pc[w] = "idle"
  /\ \E incomingSecret \in Secrets \cup {NULL} :
       /\ ~Authorized(incomingSecret, workerSecret)
       /\ req' = [req EXCEPT ![w] = [secret |-> incomingSecret, response |-> 401]]
  /\ UNCHANGED <<now, credentials, jobs, runs, pc, batch, wl, st, sendFailures, storeFaults>>
  /\ UNCHANGED <<sends, events, replied, workerSecret, oauthVars, stepVars, summary>>

(* any deployment: WORKER_SECRET set to some secret, or not set            *)
SecretInit == InitStore /\ workerSecret \in Secrets \cup {NULL}

SecretNext ==
  \/ \E w \in Workers : HappyWorker(w) \/ Reject(w)
  \/ HappyStart
  \/ AdvanceToDue

SecretSpec == SecretInit /\ [][SecretNext]_vars

(* ------------------------------- claims -------------------------------- *)
TerminalStatus == {"sent", "failed"}
NonTerminal == {"scheduled", "claimed"}

(* the ids of the jobs an invocation still holds of its claimed batch      *)
Pending(w) == {batch[w][k].id : k \in 1..Len(batch[w])}

(* the jobs of a run                                                       *)
JobsOf(r) == {i \in JobIds : jobs[i].sequence_run_id = r}

(* C1: once a job's status is sent or failed, no step changes it.          *)
C1_TerminalStatusIsFinal ==
  [][\A i \in JobIds :
       jobs[i].status \in TerminalStatus => jobs'[i].status = jobs[i].status]_vars

(* C2: every job has attempts <= MAX_ATTEMPTS in every reachable state.    *)
C2_AttemptsAtMostMax == \A i \in JobIds : jobs[i].attempts <= MAX_ATTEMPTS

(* C3: no job is held by two worker invocations at once: the batches that  *)
(* concurrent invocations got from claim, and still process, are disjoint. *)
C3_ClaimedBatchesDisjoint ==
  \A v, w \in Workers : v # w => Pending(v) \cap Pending(w) = {}

(* two invocations are running, each on a batch of its own                 *)
C3_Witness ==
  \E v, w \in Workers : v # w /\ Pending(v) # {} /\ Pending(w) # {}

(* C4: a claim returns only jobs that were scheduled and due when it ran,  *)
(* flips exactly those to claimed in the same step and touches no other    *)
(* job: a claimed, sent or failed job is never returned.                   *)
C4_ClaimReturnsDueScheduled ==
  [][\A w \in Workers :
       (pc[w] = "idle" /\ pc'[w] # "idle") =>
         LET ids == {batch'[w][k].id : k \in 1..Len(batch'[w])} IN
         /\ Len(jobs') = Len(jobs)
         /\ \A i \in JobIds :
              IF i \in ids
              THEN /\ jobs[i].status = "scheduled"
                   /\ jobs[i].scheduled_for <= now
                   /\ jobs'[i] = [jobs[i] EXCEPT !.status = "claimed"]
              ELSE jobs'[i] = jobs[i]]_vars

(* an invocation has just claimed a batch while a scheduled job that is    *)
(* not yet due stays behind, untouched                                     *)
C4_Witness ==
  \E w \in Workers :
    /\ pc[w] = "job"
    /\ \A k \in 1..Len(batch[w]) : jobs[batch[w][k].id].status = "claimed"
    /\ \E i \in JobIds : jobs[i].status = "scheduled" /\ jobs[i].scheduled_for > now

(* C5: every run has at most one job in a non-terminal status.             *)
C5_OneNonTerminalJobPerRun ==
  \A r \in RunIds :
    Cardinality({i \in JobsOf(r) : jobs[i].status \in NonTerminal}) <= 1

(* C6: no job is created for a run whose status is stopped or completed.   *)
C6_NoJobForInactiveRun ==
  [][\A i \in (Len(jobs) + 1)..Len(jobs') :
       LET r == jobs'[i].sequence_run_id IN
       r \in RunIds => runs[r].status = "active"]_vars

(* C7: a run's thread_id, once non-null, never changes: a later send for   *)
(* the run keeps the thread id the run already has.                        *)
C7_ThreadIdFirstWriteWins ==
  [][\A r \in RunIds :
       runs[r].thread_id # NULL => runs'[r].thread_id = runs[r].thread_id]_vars

(* C8: when the worker finishes a job it has sent for a run, either a      *)
(* scheduled job for the run's next step exists or the run is stopped or   *)
(* completed, and not both.                                                *)
C8_FollowUpXorEnded ==
  [][\A w \in Workers :
       (pc[w] \in {"post", "stop", "next"} /\ batch'[w] # batch[w]) =>
         LET job == Job(w).row
             r == job.sequence_run_id
             nextStep == NextStep(Steps[job.step_id].sequence_id,
                                  Steps[job.step_id].step_order)
             a == \E i \in 1..Len(jobs') :
                    /\ jobs'[i].sequence_run_id = r
                    /\ jobs'[i].step_id = nextStep
                    /\ jobs'[i].status = "scheduled"
             b == runs'[r].status \in {"stopped", "completed"}
         IN a # b]_vars

(* C9: a job of a run that is not the run's first job exists only while    *)
(* the run's job before it has status sent.                                *)
C9_PredecessorSent ==
  \A r \in RunIds : \A i, k \in JobsOf(r) :
    (k < i /\ \A m \in JobsOf(r) : ~(k < m /\ m < i)) => jobs[k].status = "sent"

(* C10: a failed send of a job with attempts n leaves it scheduled iff     *)
(* n + 1 < MAX_ATTEMPTS and failed otherwise, with attempts n + 1.         *)
C10_RetryPolicy ==
  [][\A w \in Workers :
       (pc[w] = "job" /\ sendFailures' = sendFailures + 1
          /\ storeFaults' = storeFaults) =>
         LET i == Job(w).id
             n == jobs[i].attempts
         IN /\ jobs'[i].attempts = n + 1
            /\ jobs'[i].status = IF n + 1 < MAX_ATTEMPTS THEN "scheduled" ELSE "failed"]_vars

(* C11: a failed send of a job with attempts n that is rescheduled gets     *)
(* scheduled_for = now + 2^(n+1) minutes.                                   *)
C11_BackoffDoubles ==
  [][\A w \in Workers :
       (pc[w] = "job" /\ sendFailures' = sendFailures + 1
          /\ storeFaults' = storeFaults) =>
         LET i == Job(w).id
             n == jobs[i].attempts
         IN jobs'[i].status = "scheduled" =>
              jobs'[i].scheduled_for = now + Pow2(n + 1)]_vars

(* a job no send of which the provider accepted, in a behaviour without    *)
(* store faults, of a tenant with a refresh token                          *)
NeverAccepted(i) ==
  /\ storeFaults = 0
  /\ sends[i].accepted = 0
  /\ credentials[jobs[i].owner_id] = "token"

(* C12: a job whose send fails on every try is failed after exactly        *)
(* MAX_ATTEMPTS (5) failed sends, not before and with no further try; its  *)
(* failures leave the run as it is and add no job; the run of a first job  *)
(* stays at current_step 0 and gets no follow-up job.                      *)
C12_FailedAfterFiveFailedSends ==
  /\ [](\A i \in JobIds : NeverAccepted(i) =>
          LET r == jobs[i].sequence_run_id IN
          /\ sends[i].failed <= MAX_ATTEMPTS
          /\ (jobs[i].status = "failed") <=> (sends[i].failed = MAX_ATTEMPTS)
          /\ jobs[i].status # "sent"
          /\ jobs[i].step_id = StepsOf(runs[r].sequence_id)[1] =>
                /\ runs[r].current_step = 0
                /\ JobsOf(r) = {i})
  /\ [][\A i \in JobIds :
          (storeFaults' = 0 /\ sends'[i].failed = sends[i].failed + 1) =>
             /\ runs' = runs
             /\ Len(jobs') = Len(jobs)]_vars

(* a job has failed five times, never sent, and has ended in failed        *)
C12_Witness ==
  \E i \in JobIds :
    /\ NeverAccepted(i)
    /\ sends[i].failed = MAX_ATTEMPTS
    /\ jobs[i].status = "failed"
    /\ runs[jobs[i].sequence_run_id].status = "active"

(* C13: for a job of a tenant without a refresh token the mail sender is   *)
(* never invoked; when the worker has read the credential it marks the job *)
(* failed with last_error no_refresh_token (the row stays as it is if the  *)
(* store drops that update), never scheduled, attempts unchanged; a job    *)
(* marked so stays failed.                                                 *)
C13_NoTokenFailsWithoutSend ==
  /\ [](\A i \in JobIds :
          /\ credentials[jobs[i].owner_id] # "token" => sends[i].accepted = 0
          /\ jobs[i].last_error = "no_refresh_token" => jobs[i].status = "failed")
  /\ [][\A w \in Workers :
          (pc[w] = "job" /\ credentials[Job(w).row.owner_id] # "token"
             /\ batch'[w] # batch[w] /\ sendFailures' = sendFailures) =>
            LET i == Job(w).id IN
            /\ sends' = sends
            /\ jobs'[i].attempts = jobs[i].attempts
            /\ IF storeFaults' = storeFaults
               THEN jobs'[i] = [jobs[i] EXCEPT !.status = "failed",
                                               !.last_error = "no_refresh_token"]
               ELSE jobs'[i] = jobs[i]]_vars

(* a job of a tenant without a refresh token has been processed: failed,   *)
(* no_refresh_token, attempts as created, nothing sent                     *)
C13_Witness ==
  \E i \in JobIds :
    /\ credentials[jobs[i].owner_id] # "token"
    /\ jobs[i].status = "failed"
    /\ jobs[i].last_error = "no_refresh_token"
    /\ jobs[i].attempts = 0
    /\ sends[i].accepted = 0

(* the step of invocation w is one in which the post-send logic of its job *)
(* raised an error: the job ends before the reply check, or with a next    *)
(* step at hand and no follow-up inserted                                  *)
PostSendErrorStep(w) ==
  /\ batch'[w] # batch[w]
  /\ \/ pc[w] = "post"
     \/ /\ pc[w] = "next"
        /\ wl[w].sequenceId # NULL
        /\ NextStep(wl[w].sequenceId, wl[w].currentStepOrder) # NULL
        /\ Len(jobs') = Len(jobs)

(* C14: an error in the post-send logic leaves the job in status sent,     *)
(* not rescheduled and not failed, and adds an email_events row with       *)
(* status failed for it.                                                   *)
C14_PostSendErrorKeepsSent ==
  [][\A w \in Workers :
       (PostSendErrorStep(w) /\ jobs[Job(w).id].status = "sent") =>
         /\ jobs'[Job(w).id].status = "sent"
         /\ Len(events') > 0
         /\ events'[Len(events')] = Event(Job(w).row, "failed")]_vars

(* C15: the mail provider accepts the message of a job at most once, over  *)
(* all worker invocations.                                                 *)
C15_AtMostOneAcceptedSend == \A i \in JobIds : sends[i].accepted <= 1

(* C16: once the reply detector has reported a reply for a run, the run is *)
(* stopped as soon as the handler has written it (in behaviours where the  *)
(* store drops no write) and stays so, and no job is inserted for the run  *)
(* afterwards, by any invocation.                                          *)
C16_ReplyStopsRun ==
  /\ [](\A r \in replied :
          (storeFaults = 0 /\ \A w \in Workers :
               ~(pc[w] = "stop" /\ Job(w).row.sequence_run_id = r))
            => runs[r].status = "stopped")
  /\ [][\A i \in (Len(jobs) + 1)..Len(jobs') :
          jobs'[i].sequence_run_id \notin replied]_vars

(* a reply was reported after the first step of a two-step sequence, the   *)
(* run is stopped and its only job is the one that was sent                *)
C16_Witness ==
  \E r \in replied :
    /\ runs[r].status = "stopped"
    /\ NextStep(runs[r].sequence_id, runs[r].current_step) # NULL
    /\ \A w \in Workers : pc[w] = "idle"
    /\ \A i \in JobsOf(r) : jobs[i].status = "sent"
    /\ Cardinality(JobsOf(r)) = 1

(* the sent events of run r, as the steps they are for                     *)
SentSteps(r) ==
  LET ev == SelectSeq(events, LAMBDA e : e.sequence_run_id = r /\ e.status = "sent")
  IN [k \in 1..Len(ev) |-> ev[k].step_id]

(* run r is completed at its last step with one sent event per step, in    *)
(* ascending step_order                                                    *)
CompletedInOrder(r) ==
  LET steps == StepsOf(runs[r].sequence_id) IN
  /\ runs[r].status = "completed"
  /\ runs[r].current_step = Steps[steps[Len(steps)]].step_order
  /\ SentSteps(r) = steps

(* C17: on the happy path every run of a connected tenant eventually is    *)
(* completed with current_step the highest step_order of its sequence and  *)
(* exactly one sent event per step, ascending; and it stays so.            *)
C17_HappyPathCompletes ==
  \A r \in 1..MaxRuns :
    (r \in RunIds /\ credentials[runs[r].owner_id] = "token")
      ~> [](r \in RunIds /\ CompletedInOrder(r))

(* a run of the two-step sequence is completed at step_order 3 with its    *)
(* two sent events                                                         *)
C17_Witness ==
  \E r \in RunIds :
    /\ CompletedInOrder(r)
    /\ Len(StepsOf(runs[r].sequence_id)) = 2
    /\ runs[r].current_step = 3
    /\ Len(SentSteps(r)) = 2
(* C18: an OAuth state is used once: the provider is asked for at most    *)
(* one token exchange per state, only a callback that asked for it writes *)
(* a credential, a callback that presents a state already used gets 400   *)
(* 'Invalid or expired state', and a callback so answered changes nothing *)
(* but its own answer.                                                     *)
C18_StateIsSingleUse ==
  /\ [](\A s \in StateIds : exchanges[s] <= 1)
  /\ [][\A c \in Callbacks :
          /\ (cb[c].pc = "idle" /\ cb'[c] # cb[c] /\ cb'[c].state # NULL
                /\ exchanges[cb'[c].state] >= 1)
               => cb'[c].response = "400 Invalid or expired state."
          /\ (cb'[c] # cb[c] /\ cb'[c].response = "400 Invalid or expired state.")
               => /\ stateStore' = stateStore
                  /\ exchanges' = exchanges
                  /\ credentials' = credentials
                  /\ \A d \in Callbacks \ {c} : cb'[d] = cb[d]
          /\ credentials' # credentials => \E d \in Callbacks : cb[d].pc = "exchange"]_vars

(* two callbacks with one state: the first is still waiting for the        *)
(* provider, the second has been answered 400                              *)
C18_Witness ==
  \E c, d \in Callbacks :
    /\ cb[c].pc = "exchange"
    /\ cb[d].state = cb[c].state
    /\ cb[d].response = "400 Invalid or expired state."
    /\ exchanges[cb[c].state] = 1

(* C19: a callback that proceeds to the token exchange presents a state    *)
(* whose expires_at has not passed.                                        *)
C19_ExpiredStateRejected ==
  [][\A c \in Callbacks :
       (cb[c].pc = "idle" /\ cb'[c].pc = "exchange")
         => now <= Get(stateStore, cb'[c].state).expires_at]_vars

(* C20: an invocation that presents no secret, or one that differs from   *)
(* WORKER_SECRET, is answered 401 and leaves the jobs and every batch as   *)
(* they were, whether WORKER_SECRET is set or not.                         *)
C20_BadSecretRejected ==
  [][\A w \in Workers :
       (/\ pc[w] = "idle"
        /\ pc'[w] # "idle" \/ req'[w] # req[w]
        /\ req'[w].secret = NULL \/ req'[w].secret # workerSecret)
         => /\ req'[w].response = 401
            /\ jobs' = jobs
            /\ batch' = batch
            /\ pc' = pc]_vars

(* the step of a sequence with the lowest step_order                       *)
LowestStep(sequence_id) ==
  CHOOSE i \in 1..Len(Steps) :
    /\ Steps[i].sequence_id = sequence_id
    /\ \A k \in 1..Len(Steps) :
         Steps[k].sequence_id = sequence_id => Steps[i].step_order <= Steps[k].step_order

(* C21: a start_sequence call that answers 201 for k recipient entries has *)
(* created k runs, one per entry in the order given, and k jobs, one per   *)
(* created run; every run it inserts is active at current_step 0; every    *)
(* job it inserts is scheduled with attempts 0, bound to the lowest-order  *)
(* step of the sequence and due at first_send_time, or at the time of the  *)
(* request when that is left out.                                          *)
C21_StartCreatesRunAndJobPerRecipient ==
  [][/\ (st.pc = "idle" /\ st'.pc = "run" /\ st'.first_send_time = NULL)
          => st'.scheduledBase = now
     /\ Len(runs') > Len(runs) =>
          /\ Len(runs') = Len(runs) + 1
          /\ runs'[Len(runs')].status = "active"
          /\ runs'[Len(runs')].current_step = 0
          /\ runs'[Len(runs')].sequence_id = st.sequence_id
     /\ (st.pc = "job" /\ st' # st /\ Len(jobs') > Len(jobs)) =>
          LET job == jobs'[Len(jobs')] IN
          /\ Len(jobs') = Len(jobs) + 1
          /\ job.status = "scheduled"
          /\ job.attempts = 0
          /\ job.step_id = LowestStep(st.sequence_id)
          /\ job.scheduled_for = IF st.first_send_time # NULL THEN st.first_send_time
                                 ELSE st.scheduledBase
     /\ (st.pc = "job" /\ st'.response = 201) =>
          LET k == Len(st.finalRecipients)
              createdRuns == st'.createdRuns
              createdJobs == st'.createdJobs
          IN
          /\ Len(createdRuns) = k
          /\ Len(createdJobs) = k
          /\ \A a \in 1..k :
               /\ createdRuns[a] = Len(runs') - k + a
               /\ runs'[createdRuns[a]].recipient_email = st.finalRecipients[a]
               /\ createdJobs[a] \in 1..Len(jobs')
               /\ jobs'[createdJobs[a]].sequence_run_id = createdRuns[a]
               /\ jobs'[createdJobs[a]].to_email = st.finalRecipients[a]
               /\ \A b \in 1..k : a < b => createdJobs[a] < createdJobs[b]]_vars

(* a call for two entries of one address, with first_send_time, has        *)
(* answered 201: two runs, and a job for each that is due at that time     *)
C21_Witness ==
  /\ st.response = 201
  /\ Len(st.createdRuns) = 2
  /\ Len(st.createdJobs) = 2
  /\ \A a \in 1..2 :
       /\ jobs[st.createdJobs[a]].scheduled_for = FirstSendTime
       /\ jobs[st.createdJobs[a]].sequence_run_id = st.createdRuns[a]
  /\ runs[1].recipient_email = runs[2].recipient_email

(* the recipient entry the starter is at                                   *)
RecipientIndex(request) == Len(request.finalRecipients) - Len(request.recipients) + 1

(* C30: a store error in start_sequence at recipient i answers 500 and     *)
(* changes no row: the runs and jobs created for the entries before i are  *)
(* in the store, one each, and none for an entry after i; the starter      *)
(* inserts rows only, one at a time, and every row it inserts is one of    *)
(* the created ones.                                                       *)
C30_StartErrorKeepsPartialProgress ==
  [][/\ (st.pc \in {"run", "job"} /\ st'.response = 500) =>
          LET i == RecipientIndex(st) IN
          /\ runs' = runs
          /\ jobs' = jobs
          /\ Len(st.createdJobs) = i - 1
          /\ Len(st.createdRuns) = IF st.pc = "run" THEN i - 1 ELSE i
          /\ \A a \in 1..(i - 1) :
               /\ st.createdRuns[a] \in RunIds
               /\ runs[st.createdRuns[a]].recipient_email = st.finalRecipients[a]
               /\ st.createdJobs[a] \in JobIds
               /\ jobs[st.createdJobs[a]].sequence_run_id = st.createdRuns[a]
     /\ st' # st =>
          /\ \A r \in RunIds : r \in 1..Len(runs') /\ runs'[r] = runs[r]
          /\ \A j \in JobIds : j \in 1..Len(jobs') /\ jobs'[j] = jobs[j]
     /\ Len(runs') > Len(runs) =>
          /\ Len(runs') = Len(runs) + 1
          /\ st'.createdRuns = Append(st.createdRuns, Len(runs'))
     /\ (st' # st /\ Len(jobs') > Len(jobs)) =>
          /\ Len(jobs') = Len(jobs) + 1
          /\ st'.createdJobs = Append(st.createdJobs, Len(jobs'))]_vars

(* the call for two entries failed at the job of the second: the run and   *)
(* the job of the first entry and the run of the second are in the store   *)
C30_Witness ==
  /\ st.response = 500
  /\ RecipientIndex(st) = 2
  /\ st.createdRuns = <<1, 2>>
  /\ st.createdJobs = <<1>>
  /\ Len(runs) = 2
  /\ jobs[1].sequence_run_id = 1
  /\ \A j \in JobIds : jobs[j].sequence_run_id # 2

(* C22: no two steps of the table have the same sequence_id and the same   *)
(* step_order.                                                             *)
C22_StepOrderUnique ==
  \A i, k \in StepIds :
    (i # k /\ sequence_steps[i].sequence_id = sequence_steps[k].sequence_id)
      => sequence_steps[i].step_order # sequence_steps[k].step_order

(* C23: every send attempt of a job bound to a run and a step appends one *)
(* email_event for that run and step: a try that throws appends a failed   *)
(* event in the step that handles it, an accepted send a sent event in the *)
(* step that follows it, when no store call fails.                         *)
C23_EventPerSendAttempt ==
  [][\A w \in Workers :
       LET job == Job(w).row IN
       /\ (pc[w] = "job" /\ sends'[Job(w).id].failed = sends[Job(w).id].failed + 1
             /\ job.sequence_run_id # NULL /\ job.step_id # NULL)
            => events' = Append(events, Event(job, "failed"))
       /\ (pc[w] = "post" /\ pc'[w] # "post" /\ storeFaults' = storeFaults)
            => events' = Append(events, Event(job, "sent"))]_vars

(* C24: when an invocation that claimed a batch ends, it has gone through *)
(* the whole batch and its summary counts every claimed job once:          *)
(* sent + failed = claimed, and failures holds one entry per failed job.   *)
C24_SummaryCountsEachJobOnce ==
  [][\A w \in Workers :
       (pc[w] # "idle" /\ pc'[w] = "idle") =>
         /\ batch'[w] = <<>>
         /\ summary'[w].sent + summary'[w].failed = summary'[w].claimed
         /\ Len(summary'[w].failures) = summary'[w].failed]_vars

(* job i comes before job k in the order of service                        *)
Precedes(i, k) ==
  \/ jobs[i].scheduled_for < jobs[k].scheduled_for
  \/ (jobs[i].scheduled_for = jobs[k].scheduled_for /\ i < k)

DueScheduled(i) == jobs[i].status = "scheduled" /\ jobs[i].scheduled_for <= now

(* C25: a claim returns jobs in the order earliest scheduled_for first,    *)
(* ties by insertion order; every job it returns comes before every due    *)
(* scheduled job it leaves; it leaves one only when the batch is full; and *)
(* with the worker invoked again and again every due scheduled job is      *)
(* claimed in the end.                                                     *)
C25_ClaimServesEarliestFirst ==
  /\ [][\A w \in Workers :
          (pc[w] = "idle" /\ pc'[w] # "idle") =>
            LET ids == {batch'[w][n].id : n \in 1..Len(batch'[w])}
                left == {k \in JobIds : DueScheduled(k)} \ ids
            IN /\ \A i \in ids, k \in left : Precedes(i, k)
               /\ \A m, n \in 1..Len(batch'[w]) :
                    m < n => Precedes(batch'[w][m].id, batch'[w][n].id)
               /\ left # {} => Len(batch'[w]) = BATCH_SIZE]_vars
  /\ \A i \in 1..MaxTable :
       (i \in JobIds /\ DueScheduled(i)) ~> (jobs[i].status # "scheduled")

(* a claim has filled its batch and left a due scheduled job behind, one   *)
(* due at the same time as a job of the batch and inserted after it        *)
C25_Witness ==
  \E w \in Workers, k \in JobIds :
    /\ pc[w] = "job"
    /\ Len(batch[w]) = BATCH_SIZE
    /\ DueScheduled(k)
    /\ \E n \in 1..Len(batch[w]) :
         /\ batch[w][n].row.scheduled_for = jobs[k].scheduled_for
         /\ batch[w][n].id < k

(* C26: the post-send step for a job whose run is not active appends the  *)
(* sent event, leaves the run row as it is, asks for no reply check and    *)
(* goes on to the next job without inserting one (no store call failing).  *)
C26_InactiveRunNotAdvanced ==
  [][\A w \in Workers :
       LET r == Job(w).row.sequence_run_id IN
       (pc[w] = "post" /\ pc'[w] # "post" /\ storeFaults' = storeFaults
          /\ runs[r].status # "active") =>
         /\ events' = Append(events, Event(Job(w).row, "sent"))
         /\ runs'[r] = runs[r]
         /\ pc'[w] \notin {"stop", "next"}
         /\ replied' = replied
         /\ Len(jobs') = Len(jobs)]_vars

(* line 93: a message counts as a reply when its date is after the bound  *)
ReplyAfter(dateMs, sinceTimestampMs) == dateMs > sinceTimestampMs

(* C27: the reply check after a send for a run that has been sent to       *)
(* before, in a thread, takes the last_sent_at of that earlier send as its *)
(* lower bound:                                                            *)
(* a reply dated a minute after the earlier send, and before this send,    *)
(* is after the bound.                                                     *)
C27_ReplyCheckSincePreviousSend ==
  [][\A w \in Workers :
       LET r == Job(w).row.sequence_run_id IN
       (pc[w] = "post" /\ pc'[w] \in {"stop", "next"} /\ storeFaults' = storeFaults
          /\ wl'[w].runThreadId # NULL
          /\ runs[r].last_sent_at # NULL /\ runs[r].last_sent_at + 1 < now) =>
         /\ wl'[w].sinceMs = runs[r].last_sent_at
         /\ ReplyAfter(runs[r].last_sent_at + 1, wl'[w].sinceMs)]_vars

(* the steps of the sequence of step s that come after it                  *)
LaterSteps(s) ==
  {i \in 1..Len(Steps) : /\ Steps[i].sequence_id = Steps[s].sequence_id
                         /\ Steps[i].step_order > Steps[s].step_order}

(* C28: when the worker goes on from the reply check of a sent step with   *)
(* no reply and no store call fails, it inserts one job, bound to the      *)
(* later step of the same sequence with the smallest step_order, and       *)
(* leaves the runs as they are; when the sequence has no later step it     *)
(* sets the run completed and inserts no job.                              *)
C28_FollowUpIsNextStepOfSequence ==
  [][\A w \in Workers :
       (pc[w] = "next" /\ pc'[w] # "next" /\ storeFaults' = storeFaults) =>
         LET r == Job(w).row.sequence_run_id
             C == LaterSteps(Job(w).row.step_id)
         IN IF C # {}
            THEN /\ Len(jobs') = Len(jobs) + 1
                 /\ jobs'[Len(jobs')].step_id \in C
                 /\ \A c \in C : Steps[jobs'[Len(jobs')].step_id].step_order
                                   <= Steps[c].step_order
                 /\ jobs'[Len(jobs')].sequence_run_id = r
                 /\ runs' = runs
            ELSE /\ runs'[r].status = "completed"
                 /\ Len(jobs') = Len(jobs)]_vars

(* the follow-up of step 1 of sequence 1 is bound to its step of order 3,  *)
(* past order 2, which is a step of sequence 2                             *)
C28_Witness ==
  \E i \in JobIds :
    /\ jobs[i].status = "scheduled"
    /\ Steps[jobs[i].step_id].step_order = 3
    /\ runs[jobs[i].sequence_run_id].current_step = 1
    /\ runs[jobs[i].sequence_run_id].sequence_id = 1

(* C29: the follow-up job the worker inserts for next step s is scheduled, *)
(* has attempts 0, is due s.delay_days days after the clock of the insert  *)
(* (at that very minute when delay_days is 0, so it is due at once), goes  *)
(* to the run's recipient_email, and has the owner_id, sequence_run_id and *)
(* timezone of the job just sent.                                          *)
C29_FollowUpJobFields ==
  [][\A w \in Workers :
       (pc[w] = "next" /\ pc'[w] # "next" /\ Len(jobs') = Len(jobs) + 1) =>
         LET job == Job(w).row
             new == jobs'[Len(jobs')]
             s == Steps[new.step_id]
         IN /\ new.status = "scheduled"
            /\ new.attempts = 0
            /\ new.scheduled_for = now + s.delay_days * MinutesPerDay
            /\ s.delay_days = 0 => new.scheduled_for = now /\ Len(jobs') \in Due(jobs', now)
            /\ new.to_email = runs[job.sequence_run_id].recipient_email
            /\ new.owner_id = job.owner_id
            /\ new.sequence_run_id = job.sequence_run_id
            /\ new.timezone = job.timezone]_vars

(* a follow-up with no delay, due the minute it was inserted, in the time  *)
(* zone the request gave to the first job                                  *)
C29_Witness ==
  \E i, k \in JobIds :
    /\ jobs[i].status = "sent" /\ jobs[i].timezone = "UTC"
    /\ jobs[k].sequence_run_id = jobs[i].sequence_run_id
    /\ jobs[k].status = "scheduled" /\ jobs[k].timezone = "UTC"
    /\ Steps[jobs[i].step_id].step_order < Steps[jobs[k].step_id].step_order
    /\ Steps[jobs[k].step_id].delay_days = 0
    /\ jobs[k].scheduled_for = now

(* C31: whenever /oauth2/callback redirects with status=success for an     *)
(* owner, the credential store holds, under that owner, the refresh token  *)
(* the callback's exchange returned.                                       *)
C31_SuccessMeansStored ==
  [][\A c \in Callbacks :
       (cb[c].pc = "exchange" /\ cb'[c].response = "302") =>
         credentials'[cb[c].owner_id] = cb'[c].refresh_token]_vars

(* C32: a run's status is irreversible: once a run is stopped or           *)
(* completed, no step changes its status again.                            *)
C32_RunStatusIrreversible ==
  [][\A r \in RunIds :
       runs[r].status \in {"stopped", "completed"} =>
         runs'[r].status = runs[r].status]_vars

(* the jobs still in worker w's batch, the one at hand included            *)
InBatch(w) == {batch[w][k].id : k \in 1..Len(batch[w])}

(* C33: while no store call has failed, a worker that is done with a job   *)
(* leaves it sent, failed, or scheduled for a time strictly after the      *)
(* clock of the failure, and when its invocation ends no job it claimed is *)
(* still claimed.                                                          *)
C33_ClaimedJobsLeaveClaimed ==
  [][\A w \in Workers :
       /\ (pc[w] # "idle" /\ batch'[w] # batch[w] /\ storeFaults' = 0) =>
            LET row == jobs'[Job(w).id] IN
            \/ row.status \in {"sent", "failed"}
            \/ row.status = "scheduled" /\ row.scheduled_for > now
       /\ (pc[w] # "idle" /\ pc'[w] = "idle" /\ storeFaults' = 0) =>
            \A i \in JobIds :
              jobs'[i].status = "claimed" => \E v \in Workers \ {w} : i \in InBatch(v)']_vars

(* an invocation that claimed two jobs has ended without a store fault:    *)
(* one job is sent, the other back in the queue for a later time           *)
C33_Witness ==
  /\ storeFaults = 0
  /\ \A w \in Workers : pc[w] = "idle"
  /\ \E w \in Workers :
       /\ summary[w].claimed = 2 /\ summary[w].sent = 1 /\ summary[w].failed = 1
  /\ \E i, k \in JobIds :
       /\ jobs[i].status = "sent"
       /\ jobs[k].status = "scheduled" /\ jobs[k].attempts > 0 /\ jobs[k].scheduled_for > now

(* the jobs of run r the provider has accepted a message for               *)
SentOf(r) == {k \in JobIds : jobs[k].sequence_run_id = r /\ sends[k].accepted > 0}

(* C34: a run's current_step never decreases, and each message the         *)
(* provider accepts for a run is of a step whose step_order is above that  *)
(* of every step already sent for the run.                                 *)
C34_StepsSentInIncreasingOrder ==
  [][/\ \A r \in RunIds : runs'[r].current_step >= runs[r].current_step
     /\ \A i \in JobIds :
          (sends'[i].accepted > sends[i].accepted /\ jobs[i].sequence_run_id # NULL) =>
            \A k \in SentOf(jobs[i].sequence_run_id) :
              Steps[jobs[k].step_id].step_order < Steps[jobs[i].step_id].step_order]_vars

(* the callbacks that redirect with status=success for owner o in a step   *)
Succeeding(o) ==
  {c \in Callbacks : cb[c].pc = "exchange" /\ cb[c].owner_id = o /\ cb'[c].response = "302"}

(* C35: last write wins: the credential of a tenant changes only when a    *)
(* callback for the tenant succeeds, and then holds what that callback's   *)
(* exchange returned; when it returned no refresh token the stored token   *)
(* is replaced by null and /status reports connected = false.              *)
C35_LastCallbackWins ==
  [][\A o \in Owners :
       IF Succeeding(o) = {}
       THEN credentials'[o] = credentials[o]
       ELSE \A c \in Succeeding(o) :
              /\ credentials'[o] = cb'[c].refresh_token
              /\ cb'[c].refresh_token = "null" => ~Connected(o)']_vars

====
